---- MODULE Spec2Model ----
(***************************************************************************)
(* PlaylistSorter: the sort-specification level builders, the level       *)
(* validator (repair), the sort modal inside the dashboard, the            *)
(* prototype's track comparator and the comparator / ranking engine.       *)
(* Specifications: Spec (builders), SpecRepair, SpecSelect, SpecSwap (pure *)
(* functions of the builders), SpecModal (SortModal in DashboardPage),     *)
(* SpecLifecycle (a request from its start to its toast, with fairness),   *)
(* SpecParse (manual favourite-artist entry), SpecCompare and SpecSorted   *)
(* (PlaylistDetail comparator and sort), SpecEngine (sort engine),         *)
(* SpecShuffle (Fisher-Yates shuffle).                                     *)
(*                                                                         *)
(* Two UI components edit a sort specification (a sequence of levels, each *)
(* an attribute with a direction):                                         *)
(*   CustomSortBuilder  (frontend/src/components/CustomSortBuilder.tsx)    *)
(*   SortLevelBuilder   (frontend/src/components/SortLevelBuilder.tsx)     *)
(* The source indexes arrays from 0; the operators below keep the source's *)
(* 0-based index parameters and translate to 1-based sequences inside.     *)
(* SortLevelBuilder.tsx holds two revisions of the component; the model    *)
(* follows the first one (lines 1-358: MAX_SORT_LEVELS, Rule 4,            *)
(* updateDirection).  A handler is enabled when the control that calls it  *)
(* is rendered and not disabled, and its attribute argument ranges over    *)
(* the options its <select> renders.                                       *)
(***************************************************************************)
EXTENDS Naturals, Integers, Sequences, FiniteSets, TLC

VARIABLES
    component,      \* which builder is mounted
    levels,         \* CustomSortBuilder prop `levels` (SortModal.customLevels)
    value,          \* SortLevelBuilder prop `value`
    showAdvanced,   \* SortLevelBuilder state `showAdvanced`
    last,           \* name of the handler that ran last
    x,              \* input of a pure-function run
    pc,             \* position of a pure-function run
    once,           \* validateLevels(x)
    twice,          \* validateLevels(validateLevels(x))
    fn,             \* attribute-offering function that ran
    idx,            \* level index the attributes were offered for
    offered,        \* attributes the function offered
    selectedPlaylist,   \* DashboardPage state `selectedPlaylist` (the modal is mounted iff not "null")
    isSorting,          \* DashboardPage state `isSorting`
    request,            \* the sort / shuffle request in flight
    viewMode,           \* SortModal state `viewMode`
    selectedPreset,     \* SortModal state `selectedPreset` (preset id)
    editedLevels,       \* SortModal state `editedLevels`
    favouriteArtists,   \* SortModal state `favouriteArtists`
    isLoading,          \* FavouriteArtistsInput state `isLoading` (Last.fm fetch in flight)
    presetTemplates,    \* the level arrays of the module-level PRESETS, by preset id
    toasts,             \* useToast state `toasts` (type and message of each toast)
    staleFetch,         \* the Last.fm fetch in flight was started before the last Back
    trackA,             \* comparator argument `a`
    trackB,             \* comparator argument `b`
    customSort,         \* PlaylistDetail state `customSort`
    result,             \* the number the comparator returned
    tracks,             \* the track collection handed to the engine
    ranking,            \* the favourite-artist ranking handed to the engine
    sorted,             \* the track collection the sort returned
    sortedFlipped,      \* the result for the same input with the first direction flipped
    sortPreset,         \* PlaylistDetail state `sortPreset`
    text,               \* the textarea value handed to handleManualInputChange
    updates             \* the `updates` argument of updateLevel

vars == <<component, levels, value, showAdvanced, last, x, pc, once, twice, fn, idx, offered,
          selectedPlaylist, isSorting, request, viewMode, selectedPreset, editedLevels,
          favouriteArtists, isLoading, presetTemplates, toasts, staleFetch,
          trackA, trackB, customSort, result, tracks, ranking, sorted,
          sortedFlipped, sortPreset, text, updates>>

builderVars == <<component, levels, value, showAdvanced, last>>
pureVars == <<x, pc, once, twice, fn, idx, offered>>
sortVars == <<trackA, trackB, customSort, result, tracks, ranking, sorted,
              sortedFlipped, sortPreset, text, updates>>
modalVars == <<selectedPlaylist, isSorting, request, viewMode, selectedPreset, editedLevels,
               favouriteArtists, isLoading, presetTemplates, toasts, staleFetch>>

(***************************************************************************)
(* Bounds                                                                  *)
(***************************************************************************)
MaxLen == 3

\* the longest track collection handed to a sort
MaxTracks == 3
MaxText == 5

\* the most toasts shown at once
MaxToasts == 2

(***************************************************************************)
(* Types                                                                   *)
(***************************************************************************)
SortDirection == {"asc", "desc"}

SortLevel(a, d) == [attribute |-> a, direction |-> d]

\* Array.prototype.slice(0, n)
slice0(s, n) == SubSeq(s, 1, IF n < Len(s) THEN n ELSE Len(s))

\* Array.prototype.filter((el, i) => i \in K), K a set of 0-based indices
RECURSIVE filterIdx(_, _, _)
filterIdx(s, K, i) ==
    IF i >= Len(s) THEN <<>>
    ELSE (IF i \in K THEN <<s[i + 1]>> ELSE <<>>) \o filterIdx(s, K, i + 1)

\* the elements of an array, as a set
Range(s) == {s[i] : i \in DOMAIN s}

\* levels.map((l) => l.attribute), as the set used by includes() / has()
attrsOf(s) == {s[i].attribute : i \in DOMAIN s}

(***************************************************************************)
(* Presets                                                                 *)
(***************************************************************************)
PRESET_DISCOGRAPHY ==
    << SortLevel("artist_name", "asc"),
       SortLevel("album_release_date", "asc"),
       SortLevel("track_number", "asc") >>

PRESET_LATEST_RELEASES ==
    << SortLevel("album_release_date", "desc"),
       SortLevel("track_number", "asc") >>

PRESET_FAVOURITES_FIRST ==
    << SortLevel("favourite_artists", "asc"),
       SortLevel("artist_name", "asc"),
       SortLevel("album_release_date", "desc"),
       SortLevel("track_number", "asc") >>

PRESETS == {PRESET_DISCOGRAPHY, PRESET_LATEST_RELEASES, PRESET_FAVOURITES_FIRST}

(***************************************************************************)
(* CustomSortBuilder                                                       *)
(***************************************************************************)
MAX_LEVELS == 3

CSB_ALL_ATTRIBUTES ==
    << "title", "duration", "artist_name", "album_name",
       "album_release_date", "track_number", "favourite_artists" >>

CSB_hasAlbumContext(ls) ==
    \E i \in DOMAIN ls :
        \/ ls[i].attribute = "album_name"
        \/ ls[i].attribute = "album_release_date"
        \/ ls[i].attribute = "artist_name"

hasTrackNumber(ls) == \E i \in DOMAIN ls : ls[i].attribute = "track_number"

getAvailableAttributes(ls, levelIndex) ==
    LET usedAttributes == attrsOf(ls)
        previousLevels == slice0(ls, levelIndex)
        keep(attr) ==
            IF attr \in usedAttributes THEN FALSE
            ELSE IF attr = "favourite_artists" /\ levelIndex # 0 THEN FALSE
            ELSE IF attr = "track_number" /\ ~CSB_hasAlbumContext(previousLevels) THEN FALSE
            ELSE IF hasTrackNumber(previousLevels)
                    /\ attr \in {"album_name", "album_release_date", "artist_name"} THEN FALSE
            ELSE TRUE
    IN SelectSeq(CSB_ALL_ATTRIBUTES, keep)

\* the options of the attribute <select> of level `index`
availableForThis(ls, index) ==
    getAvailableAttributes(filterIdx(ls, (0 .. Len(ls) - 1) \ {index}, 0), index)

\* lines 93-94; the add button is rendered when both hold (line 189)
canAddMore == Len(levels) < MAX_LEVELS

availableForNext == getAvailableAttributes(levels, Len(levels))

\* variant: no early return at the level cap
handleAddLevel_ignoresCap ==
    /\ component = "CustomSortBuilder"
    /\ LET available == getAvailableAttributes(levels, Len(levels))
       IN /\ Len(available) # 0
          /\ levels' = Append(levels, SortLevel(available[1], "asc"))
    /\ last' = "handleAddLevel"
    /\ UNCHANGED <<component, value, showAdvanced>>
    /\ UNCHANGED pureVars
    /\ UNCHANGED modalVars
    /\ UNCHANGED sortVars

handleAddLevel ==
    /\ component = "CustomSortBuilder"
    /\ Len(levels) < MAX_LEVELS
    /\ LET available == getAvailableAttributes(levels, Len(levels))
       IN /\ Len(available) # 0
          /\ levels' = Append(levels, SortLevel(available[1], "asc"))
    /\ last' = "handleAddLevel"
    /\ UNCHANGED <<component, value, showAdvanced>>
    /\ UNCHANGED pureVars
    /\ UNCHANGED modalVars
    /\ UNCHANGED sortVars

handleRemoveLevel ==
    /\ component = "CustomSortBuilder"
    /\ \E index \in 0 .. Len(levels) - 1 :
          levels' = filterIdx(levels, (0 .. Len(levels) - 1) \ {index}, 0)
    /\ last' = "handleRemoveLevel"
    /\ UNCHANGED <<component, value, showAdvanced>>
    /\ UNCHANGED pureVars
    /\ UNCHANGED modalVars
    /\ UNCHANGED sortVars

\* called by the attribute <select>, whose options are availableForThis
handleAttributeChange ==
    /\ component = "CustomSortBuilder"
    /\ \E index \in 0 .. Len(levels) - 1 :
          LET options == availableForThis(levels, index)
          IN \E k \in DOMAIN options :
                levels' = [levels EXCEPT ![index + 1] =
                              SortLevel(options[k], levels[index + 1].direction)]
    /\ last' = "handleAttributeChange"
    /\ UNCHANGED <<component, value, showAdvanced>>
    /\ UNCHANGED pureVars
    /\ UNCHANGED modalVars
    /\ UNCHANGED sortVars

handleDirectionChange ==
    /\ component = "CustomSortBuilder"
    /\ \E index \in 0 .. Len(levels) - 1 : \E direction \in SortDirection :
          levels' = [levels EXCEPT ![index + 1] =
                        SortLevel(levels[index + 1].attribute, direction)]
    /\ last' = "handleDirectionChange"
    /\ UNCHANGED <<component, value, showAdvanced>>
    /\ UNCHANGED pureVars
    /\ UNCHANGED modalVars
    /\ UNCHANGED sortVars

(***************************************************************************)
(* SortLevelBuilder                                                        *)
(***************************************************************************)
MAX_SORT_LEVELS == 4

SLB_ALL_ATTRIBUTES ==
    << "artist_name", "album_name", "album_release_date", "track_number",
       "favourite_artists", "title", "duration" >>

getSelectableAttributes(index, currentLevels, currentAttr) ==
    LET precedingAttrs == attrsOf(slice0(currentLevels, index))
        hasAlbumContext ==
            \/ "album_name" \in precedingAttrs
            \/ "album_release_date" \in precedingAttrs
        hasTrackNum == "track_number" \in precedingAttrs
        keep(attr) ==
            IF attr = currentAttr THEN TRUE
            ELSE IF attr = "favourite_artists" /\ index # 0 THEN FALSE
            ELSE IF attr = "track_number" /\ ~hasAlbumContext THEN FALSE
            ELSE IF hasTrackNum /\ (attr = "album_name" \/ attr = "album_release_date") THEN FALSE
            ELSE TRUE
    IN SelectSeq(SLB_ALL_ATTRIBUTES, keep)

\* variant: the used-attribute exclusion (Rule 3) is missing
getValidAttributesForNewLevel_allowsUsed(currentLevels) ==
    IF Len(currentLevels) >= MAX_SORT_LEVELS THEN <<>>
    ELSE
    LET allAttrs == attrsOf(currentLevels)
        newIndex == Len(currentLevels)
        hasAlbumContext ==
            "album_name" \in allAttrs \/ "album_release_date" \in allAttrs
        hasTrackNum == "track_number" \in allAttrs
        keep(attr) ==
            IF attr = "favourite_artists" /\ newIndex # 0 THEN FALSE
            ELSE IF attr = "track_number" /\ ~hasAlbumContext THEN FALSE
            ELSE IF hasTrackNum /\ (attr = "album_name" \/ attr = "album_release_date") THEN FALSE
            ELSE TRUE
    IN SelectSeq(SLB_ALL_ATTRIBUTES, keep)

getValidAttributesForNewLevel(currentLevels) ==
    IF Len(currentLevels) >= MAX_SORT_LEVELS THEN <<>>
    ELSE
    LET usedAttrs == attrsOf(currentLevels)
        allAttrs == attrsOf(currentLevels)
        newIndex == Len(currentLevels)
        hasAlbumContext ==
            "album_name" \in allAttrs \/ "album_release_date" \in allAttrs
        hasTrackNum == "track_number" \in allAttrs
        keep(attr) ==
            IF attr \in usedAttrs THEN FALSE
            ELSE IF attr = "favourite_artists" /\ newIndex # 0 THEN FALSE
            ELSE IF attr = "track_number" /\ ~hasAlbumContext THEN FALSE
            ELSE IF hasTrackNum /\ (attr = "album_name" \/ attr = "album_release_date") THEN FALSE
            ELSE TRUE
    IN SelectSeq(SLB_ALL_ATTRIBUTES, keep)

\* the test validateLevels applies to the level at index i of ls
trackNumberHasContext(ls, i) ==
    IF ls[i + 1].attribute # "track_number" THEN TRUE
    ELSE LET preceding == attrsOf(slice0(ls, i))
         IN "album_name" \in preceding \/ "album_release_date" \in preceding

\* variant: only the first offending level is dropped
validateLevels_firstOnly(ls) ==
    LET bad == {i \in 0 .. Len(ls) - 1 : ~trackNumberHasContext(ls, i)}
        first == IF bad = {} THEN -1 ELSE CHOOSE i \in bad : \A j \in bad : i <= j
    IN filterIdx(ls, (0 .. Len(ls) - 1) \ {first}, 0)

\* variant: a track_number level is kept as soon as any level precedes it
validateLevels_anyPreceding(ls) ==
    LET keepIdx(i) == ls[i + 1].attribute # "track_number" \/ i > 0
    IN filterIdx(ls, {i \in 0 .. Len(ls) - 1 : keepIdx(i)}, 0)

\* variant: the levels are cut at the first offending level
validateLevels_truncates(ls) ==
    LET bad == {i \in 0 .. Len(ls) - 1 : ~trackNumberHasContext(ls, i)}
        first == IF bad = {} THEN Len(ls) ELSE CHOOSE i \in bad : \A j \in bad : i <= j
    IN slice0(ls, first)

validateLevels(ls) ==
    filterIdx(ls, {i \in 0 .. Len(ls) - 1 : trackNumberHasContext(ls, i)}, 0)

levelsMatchStructure(a, b) ==
    /\ Len(a) = Len(b)
    /\ \A i \in DOMAIN a : a[i].attribute = b[i].attribute

activePresetByStructure == \E p \in PRESETS : levelsMatchStructure(value, p)

canAddMoreLevels == Len(getValidAttributesForNewLevel(value)) > 0

\* { ...level, ...updates }
merge(level, upd) ==
    [f \in {"attribute", "direction"} |->
        IF f \in DOMAIN upd THEN upd[f] ELSE level[f]]

\* newLevels.findIndex((l, i) => i !== index && l.attribute === newAttr), -1 if none
findOtherIndex(ls, index, newAttr) ==
    LET hits == {i \in 0 .. Len(ls) - 1 : i # index /\ ls[i + 1].attribute = newAttr}
    IN IF hits = {} THEN -1 ELSE CHOOSE i \in hits : \A j \in hits : i <= j

\* variant: the other level takes the edited level's direction as well
updateLevelRaw_swapsDirection(ls, index, upd) ==
    LET swapped ==
            IF "attribute" \in DOMAIN upd
            THEN LET otherIndex == findOtherIndex(ls, index, upd.attribute)
                 IN IF otherIndex # -1
                    THEN [ls EXCEPT ![otherIndex + 1] = ls[index + 1]]
                    ELSE ls
            ELSE ls
    IN [i \in DOMAIN swapped |->
           IF i = index + 1 THEN merge(swapped[i], upd) ELSE swapped[i]]

\* the levels updateLevel builds before it validates them
updateLevelRaw(ls, index, upd) ==
    LET swapped ==
            IF "attribute" \in DOMAIN upd
            THEN LET otherIndex == findOtherIndex(ls, index, upd.attribute)
                 IN IF otherIndex # -1
                    THEN [ls EXCEPT ![otherIndex + 1] =
                             SortLevel(ls[index + 1].attribute, ls[otherIndex + 1].direction)]
                    ELSE ls
            ELSE ls
    IN [i \in DOMAIN swapped |->
           IF i = index + 1 THEN merge(swapped[i], upd) ELSE swapped[i]]

\* the preset cards are rendered in the simple view only (line 216)
applyPreset ==
    /\ component = "SortLevelBuilder"
    /\ ~showAdvanced
    /\ \E p \in PRESETS : value' = p
    /\ showAdvanced' = FALSE
    /\ last' = "applyPreset"
    /\ UNCHANGED <<component, levels>>
    /\ UNCHANGED pureVars
    /\ UNCHANGED modalVars
    /\ UNCHANGED sortVars

\* the mode-toggle button (lines 348-355)
toggleAdvanced ==
    /\ component = "SortLevelBuilder"
    /\ showAdvanced' = ~showAdvanced
    /\ last' = "toggleAdvanced"
    /\ UNCHANGED <<component, levels, value>>
    /\ UNCHANGED pureVars
    /\ UNCHANGED modalVars
    /\ UNCHANGED sortVars

\* the add button is rendered in the advanced view when canAddMoreLevels (line 334)
addLevel ==
    /\ component = "SortLevelBuilder"
    /\ showAdvanced
    /\ canAddMoreLevels
    /\ Len(value) < MAX_SORT_LEVELS
    /\ LET available == getValidAttributesForNewLevel(value)
       IN /\ Len(available) # 0
          /\ value' = Append(value, SortLevel(available[1], "asc"))
    /\ last' = "addLevel"
    /\ UNCHANGED <<component, levels, showAdvanced>>
    /\ UNCHANGED pureVars
    /\ UNCHANGED modalVars
    /\ UNCHANGED sortVars

\* the remove button is disabled when value.length <= 1 (line 324)
removeLevel ==
    /\ component = "SortLevelBuilder"
    /\ showAdvanced
    /\ Len(value) > 1
    /\ \E index \in 0 .. Len(value) - 1 :
          LET newLevels == filterIdx(value, (0 .. Len(value) - 1) \ {index}, 0)
          IN value' = validateLevels(newLevels)
    /\ last' = "removeLevel"
    /\ UNCHANGED <<component, levels, showAdvanced>>
    /\ UNCHANGED pureVars
    /\ UNCHANGED modalVars
    /\ UNCHANGED sortVars

\* called by the attribute <select> (options validAttrs, lines 275-299) and by
\* the direction <select> (lines 302-318) of the advanced view
updateLevel ==
    /\ component = "SortLevelBuilder"
    /\ showAdvanced
    /\ \E index \in 0 .. Len(value) - 1 :
          \E upd \in
                {[attribute |-> a] :
                    a \in Range(getSelectableAttributes(index, value, value[index + 1].attribute))}
                \cup {[direction |-> d] : d \in SortDirection} :
             value' = validateLevels(updateLevelRaw(value, index, upd))
    /\ last' = "updateLevel"
    /\ UNCHANGED <<component, levels, showAdvanced>>
    /\ UNCHANGED pureVars
    /\ UNCHANGED modalVars
    /\ UNCHANGED sortVars

\* called by the direction <select> of the simple view, rendered when the
\* levels match a preset's structure (lines 234-252)
updateDirection ==
    /\ component = "SortLevelBuilder"
    /\ ~showAdvanced
    /\ activePresetByStructure
    /\ \E index \in 0 .. Len(value) - 1 : \E direction \in SortDirection :
          value' = [i \in DOMAIN value |->
                       IF i = index + 1
                       THEN SortLevel(value[i].attribute, direction)
                       ELSE value[i]]
    /\ last' = "updateDirection"
    /\ UNCHANGED <<component, levels, showAdvanced>>
    /\ UNCHANGED pureVars
    /\ UNCHANGED modalVars
    /\ UNCHANGED sortVars

(***************************************************************************)
(* Specification of the two builders                                       *)
(***************************************************************************)
\* SortModal.PRESETS: preset id -> levels
SortModal_PRESETS ==
    [discography |-> PRESET_DISCOGRAPHY,
     latest_releases |-> PRESET_LATEST_RELEASES,
     favourites_first |-> PRESET_FAVOURITES_FIRST]

\* no dashboard: the modal state is the one useState() starts from
ModalIdle ==
    /\ selectedPlaylist = "null"
    /\ isSorting = FALSE
    /\ request = [kind |-> "none"]
    /\ viewMode = "select"
    /\ selectedPreset = "null"
    /\ editedLevels = <<>>
    /\ favouriteArtists = <<>>
    /\ isLoading = FALSE
    /\ presetTemplates = SortModal_PRESETS
    /\ toasts = <<>>
    /\ staleFetch = FALSE

\* no comparator call and no engine call
SortIdle ==
    /\ trackA = <<>>
    /\ trackB = <<>>
    /\ customSort = <<>>
    /\ result = 0
    /\ tracks = <<>>
    /\ ranking = <<>>
    /\ sorted = <<>>
    /\ sortedFlipped = <<>>
    /\ sortPreset = "discography"
    /\ text = <<>>
    /\ updates = <<>>

PureIdle ==
    /\ x = <<>>
    /\ pc = "idle"
    /\ once = <<>>
    /\ twice = <<>>
    /\ fn = "none"
    /\ idx = 0
    /\ offered = <<>>

Init ==
    /\ component \in {"CustomSortBuilder", "SortLevelBuilder"}
    /\ levels = <<>>
    /\ value = <<>>
    /\ showAdvanced = FALSE
    /\ last = "init"
    /\ PureIdle
    /\ ModalIdle
    /\ SortIdle

Next ==
    \/ handleAddLevel
    \/ handleRemoveLevel
    \/ handleAttributeChange
    \/ handleDirectionChange
    \/ applyPreset
    \/ toggleAdvanced
    \/ addLevel
    \/ removeLevel
    \/ updateLevel
    \/ updateDirection

Spec == Init /\ [][Next]_vars

(***************************************************************************)
(* Pure-function runs: validateLevels (repair) on bounded inputs           *)
(***************************************************************************)
SortAttribute == Range(CSB_ALL_ATTRIBUTES)

AllLevels == {SortLevel(a, d) : a \in SortAttribute, d \in SortDirection}

\* every sequence of at most MaxLen levels, valid or not, duplicates included
Inputs == UNION {[1 .. n -> AllLevels] : n \in 0 .. MaxLen}

BuildersIdle ==
    /\ component = "none"
    /\ levels = <<>>
    /\ value = <<>>
    /\ showAdvanced = FALSE
    /\ last = "init"

InitRepair ==
    /\ BuildersIdle
    /\ ModalIdle
    /\ SortIdle
    /\ x \in Inputs
    /\ pc = "input"
    /\ once = <<>>
    /\ twice = <<>>
    /\ fn = "none"
    /\ idx = 0
    /\ offered = <<>>

RepairOnce ==
    /\ pc = "input"
    /\ once' = validateLevels(x)
    /\ pc' = "once"
    /\ UNCHANGED <<x, twice, fn, idx, offered>>
    /\ UNCHANGED builderVars
    /\ UNCHANGED modalVars
    /\ UNCHANGED sortVars

RepairTwice ==
    /\ pc = "once"
    /\ twice' = validateLevels(once)
    /\ pc' = "twice"
    /\ UNCHANGED <<x, once, fn, idx, offered>>
    /\ UNCHANGED builderVars
    /\ UNCHANGED modalVars
    /\ UNCHANGED sortVars

NextRepair ==
    \/ RepairOnce
    \/ RepairTwice

SpecRepair == InitRepair /\ [][NextRepair]_vars

(***************************************************************************)
(* Pure-function runs: the attribute-offering functions on bounded inputs  *)
(***************************************************************************)
InitSelect ==
    /\ BuildersIdle
    /\ ModalIdle
    /\ SortIdle
    /\ x \in Inputs
    /\ pc = "input"
    /\ once = <<>>
    /\ twice = <<>>
    /\ fn = "none"
    /\ idx = 0
    /\ offered = <<>>

\* CustomSortBuilder: the attributes for a new trailing level
OfferAvailableForNext ==
    /\ pc = "input"
    /\ fn' = "availableForNext"
    /\ idx' = Len(x)
    /\ offered' = getAvailableAttributes(x, Len(x))
    /\ pc' = "offered"
    /\ UNCHANGED <<x, once, twice>>
    /\ UNCHANGED builderVars
    /\ UNCHANGED modalVars
    /\ UNCHANGED sortVars

\* CustomSortBuilder: the attributes for an in-place edit of level idx
OfferAvailableForThis ==
    /\ pc = "input"
    /\ \E index \in 0 .. Len(x) - 1 :
          /\ idx' = index
          /\ offered' = availableForThis(x, index)
    /\ fn' = "availableForThis"
    /\ pc' = "offered"
    /\ UNCHANGED <<x, once, twice>>
    /\ UNCHANGED builderVars
    /\ UNCHANGED modalVars
    /\ UNCHANGED sortVars

\* SortLevelBuilder: the attributes for an in-place edit of level idx
OfferSelectable ==
    /\ pc = "input"
    /\ \E index \in 0 .. Len(x) - 1 :
          /\ idx' = index
          /\ offered' = getSelectableAttributes(index, x, x[index + 1].attribute)
    /\ fn' = "getSelectableAttributes"
    /\ pc' = "offered"
    /\ UNCHANGED <<x, once, twice>>
    /\ UNCHANGED builderVars
    /\ UNCHANGED modalVars
    /\ UNCHANGED sortVars

\* SortLevelBuilder: the attributes for a new trailing level
OfferValidForNewLevel ==
    /\ pc = "input"
    /\ fn' = "getValidAttributesForNewLevel"
    /\ idx' = Len(x)
    /\ offered' = getValidAttributesForNewLevel(x)
    /\ pc' = "offered"
    /\ UNCHANGED <<x, once, twice>>
    /\ UNCHANGED builderVars
    /\ UNCHANGED modalVars
    /\ UNCHANGED sortVars

NextSelect ==
    \/ OfferAvailableForNext
    \/ OfferAvailableForThis
    \/ OfferSelectable
    \/ OfferValidForNewLevel

SpecSelect == InitSelect /\ [][NextSelect]_vars

(***************************************************************************)
(* Pure-function runs: the levels updateLevel builds before validateLevels *)
(* runs, on bounded levels without a repeated attribute (what the builder  *)
(* holds)                                                                  *)
(***************************************************************************)
InitSwap ==
    /\ BuildersIdle
    /\ ModalIdle
    /\ x \in {ls \in Inputs :
                /\ Len(ls) >= 1
                /\ \A i \in DOMAIN ls : \A j \in DOMAIN ls :
                      i # j => ls[i].attribute # ls[j].attribute}
    /\ pc = "input"
    /\ once = <<>>
    /\ twice = <<>>
    /\ fn = "none"
    /\ idx \in 0 .. Len(x) - 1
    /\ offered = <<>>
    /\ trackA = <<>>
    /\ trackB = <<>>
    /\ customSort = <<>>
    /\ result = 0
    /\ tracks = <<>>
    /\ ranking = <<>>
    /\ sorted = <<>>
    /\ sortedFlipped = <<>>
    /\ sortPreset = "discography"
    /\ text = <<>>
    /\ updates \in {[attribute |-> a] : a \in SortAttribute}
                       \cup {[direction |-> d] : d \in SortDirection}

\* updateLevel(idx, updates) up to the call of validateLevels
UpdateLevelRaw ==
    /\ pc = "input"
    /\ once' = updateLevelRaw(x, idx, updates)
    /\ pc' = "updated"
    /\ UNCHANGED <<x, twice, fn, idx, offered>>
    /\ UNCHANGED sortVars
    /\ UNCHANGED builderVars
    /\ UNCHANGED modalVars

NextSwap == UpdateLevelRaw

SpecSwap == InitSwap /\ [][NextSwap]_vars

(***************************************************************************)
(* SortModal inside DashboardPage                                          *)
(*                                                                         *)
(* The modal is mounted while selectedPlaylist is not null; its state is   *)
(* created afresh on every mount.  CustomSortBuilder is mounted in the     *)
(* custom view (component = "CustomSortBuilder") and edits customLevels,   *)
(* the variable `levels`.  authHeaders is taken to be present (the         *)
(* dashboard is shown to an authenticated user).  At most one Last.fm      *)
(* fetch is followed at a time, and one that outlives its modal is dropped *)
(* because its onChange no longer reaches any mounted state.  The level    *)
(* editors stay usable while a request is in flight; such edits reach      *)
(* neither the request already sent nor any later state (requestSettled    *)
(* unmounts the modal), and SpecModal does not follow them.  Toasts are    *)
(* read by no handler; SpecModal opens the next playlist once those of the *)
(* previous request are dismissed.                                         *)
(***************************************************************************)
\* the favourite-artist lists FavouriteArtistsInput hands to onChange
Rankings == {<<>>, <<"Queen">>, <<"Queen", "Metallica">>}

hasFavouritesLevel(ls) == \E i \in DOMAIN ls : ls[i].attribute = "favourite_artists"

currentLevels == IF viewMode = "preset-edit" THEN editedLevels ELSE levels

needsFavourites == hasFavouritesLevel(currentLevels)

\* variant: the custom view does not require a level
canApply_noLengthCheck ==
    \/ (viewMode = "preset-edit" /\ (~needsFavourites \/ Len(favouriteArtists) > 0))
    \/ (viewMode = "custom" /\ (~needsFavourites \/ Len(favouriteArtists) > 0))

\* variant: the favourite-artist list is not looked at
canApply_ignoresFavourites ==
    \/ viewMode = "preset-edit"
    \/ (viewMode = "custom" /\ Len(levels) > 0)

canApply ==
    \/ (viewMode = "preset-edit" /\ (~needsFavourites \/ Len(favouriteArtists) > 0))
    \/ (viewMode = "custom" /\ Len(levels) > 0
            /\ (~needsFavourites \/ Len(favouriteArtists) > 0))

\* <FavouriteArtistsInput> is rendered (SortModal lines 223 and 245)
favouritesInputMounted ==
    /\ selectedPlaylist # "null"
    /\ \/ (viewMode = "preset-edit" /\ selectedPreset # "null"
              /\ hasFavouritesLevel(editedLevels))
       \/ (viewMode = "custom" /\ hasFavouritesLevel(levels))

\* the state a newly mounted SortModal starts from
freshModal ==
    /\ viewMode' = "select"
    /\ selectedPreset' = "null"
    /\ editedLevels' = <<>>
    /\ levels' = <<>>
    /\ favouriteArtists' = <<>>
    /\ isLoading' = FALSE
    /\ staleFetch' = FALSE
    /\ component' = "SortModal"

\* PlaylistCard onSelect: setSelectedPlaylist(playlist) mounts the modal
selectPlaylist ==
    /\ selectedPlaylist = "null"
    /\ selectedPlaylist' = "playlist"
    /\ freshModal
    /\ last' = "selectPlaylist"
    /\ UNCHANGED <<isSorting, request, value, showAdvanced>>
    /\ UNCHANGED pureVars
    /\ UNCHANGED presetTemplates
    /\ UNCHANGED toasts
    /\ UNCHANGED sortVars

handlePresetSelect ==
    /\ selectedPlaylist # "null"
    /\ viewMode = "select"
    /\ \E preset \in DOMAIN SortModal_PRESETS :
          /\ selectedPreset' = preset
          /\ editedLevels' = presetTemplates[preset]
    /\ viewMode' = "preset-edit"
    /\ favouriteArtists' = <<>>
    /\ last' = "handlePresetSelect"
    /\ UNCHANGED <<selectedPlaylist, isSorting, request, isLoading>>
    /\ UNCHANGED <<component, levels, value, showAdvanced>>
    /\ UNCHANGED pureVars
    /\ UNCHANGED presetTemplates
    /\ UNCHANGED <<toasts, staleFetch>>
    /\ UNCHANGED sortVars

handleCustomClick ==
    /\ selectedPlaylist # "null"
    /\ viewMode = "select"
    /\ viewMode' = "custom"
    /\ levels' = <<>>
    /\ favouriteArtists' = <<>>
    /\ component' = "CustomSortBuilder"
    /\ last' = "handleCustomClick"
    /\ UNCHANGED <<selectedPlaylist, isSorting, request, selectedPreset, editedLevels, isLoading>>
    /\ UNCHANGED <<value, showAdvanced>>
    /\ UNCHANGED pureVars
    /\ UNCHANGED presetTemplates
    /\ UNCHANGED <<toasts, staleFetch>>
    /\ UNCHANGED sortVars

\* variant: writes the direction into the level object shared with the template
PresetEditor_handleDirectionChange_inPlace ==
    /\ selectedPlaylist # "null"
    /\ viewMode = "preset-edit"
    /\ selectedPreset # "null"
    /\ \E index \in 0 .. Len(editedLevels) - 1 : \E direction \in SortDirection :
          /\ editedLevels' = [editedLevels EXCEPT ![index + 1].direction = direction]
          /\ presetTemplates' = [presetTemplates EXCEPT ![selectedPreset] = editedLevels']
    /\ last' = "PresetEditor.handleDirectionChange"
    /\ UNCHANGED <<selectedPlaylist, isSorting, request, viewMode, selectedPreset,
                   favouriteArtists, isLoading>>
    /\ UNCHANGED <<component, levels, value, showAdvanced>>
    /\ UNCHANGED pureVars
    /\ UNCHANGED <<toasts, staleFetch>>
    /\ UNCHANGED sortVars

\* PresetEditor.handleDirectionChange, onChange = setEditedLevels
PresetEditor_handleDirectionChange ==
    /\ selectedPlaylist # "null"
    /\ viewMode = "preset-edit"
    /\ selectedPreset # "null"
    /\ \E index \in 0 .. Len(editedLevels) - 1 : \E direction \in SortDirection :
          editedLevels' = [editedLevels EXCEPT ![index + 1] =
                              SortLevel(editedLevels[index + 1].attribute, direction)]
    /\ last' = "PresetEditor.handleDirectionChange"
    /\ UNCHANGED <<selectedPlaylist, isSorting, request, viewMode, selectedPreset,
                   favouriteArtists, isLoading>>
    /\ UNCHANGED <<component, levels, value, showAdvanced>>
    /\ UNCHANGED pureVars
    /\ UNCHANGED presetTemplates
    /\ UNCHANGED <<toasts, staleFetch>>
    /\ UNCHANGED sortVars

\* FavouriteArtistsInput.handleManualInputChange: onChange(artists)
setFavouriteArtists ==
    /\ favouritesInputMounted
    /\ ~isSorting
    /\ \E artists \in Rankings : favouriteArtists' = artists
    /\ last' = "handleManualInputChange"
    /\ UNCHANGED <<selectedPlaylist, isSorting, request, viewMode, selectedPreset,
                   editedLevels, isLoading>>
    /\ UNCHANGED <<component, levels, value, showAdvanced>>
    /\ UNCHANGED pureVars
    /\ UNCHANGED presetTemplates
    /\ UNCHANGED <<toasts, staleFetch>>
    /\ UNCHANGED sortVars

\* FavouriteArtistsInput.handleFetchLastFm up to its await
handleFetchLastFm ==
    /\ favouritesInputMounted
    /\ ~isSorting
    /\ ~isLoading
    /\ isLoading' = TRUE
    /\ last' = "handleFetchLastFm"
    /\ UNCHANGED <<selectedPlaylist, isSorting, request, viewMode, selectedPreset,
                   editedLevels, favouriteArtists>>
    /\ UNCHANGED <<component, levels, value, showAdvanced>>
    /\ UNCHANGED pureVars
    /\ UNCHANGED presetTemplates
    /\ UNCHANGED toasts
    /\ staleFetch' = FALSE
    /\ UNCHANGED sortVars

\* FavouriteArtistsInput.handleFetchLastFm after its await: data.success
\* with data.artists, or a failure that leaves the list alone
lastFmSettled ==
    /\ isLoading
    /\ \/ \E artists \in Rankings : favouriteArtists' = artists
       \/ UNCHANGED favouriteArtists
    /\ isLoading' = FALSE
    /\ last' = "lastFmSettled"
    /\ UNCHANGED <<selectedPlaylist, isSorting, request, viewMode, selectedPreset, editedLevels>>
    /\ UNCHANGED <<component, levels, value, showAdvanced>>
    /\ UNCHANGED pureVars
    /\ UNCHANGED presetTemplates
    /\ UNCHANGED toasts
    /\ staleFetch' = FALSE
    /\ UNCHANGED sortVars

\* SortModal.handleApplySort -> onSort = DashboardPage.handleSort up to its
\* await; the Apply button is disabled when !canApply || isSorting
handleApplySort ==
    /\ selectedPlaylist # "null"
    /\ viewMode # "select"
    /\ canApply
    /\ ~isSorting
    /\ LET ls == IF viewMode = "preset-edit" THEN editedLevels ELSE levels
           artists == IF hasFavouritesLevel(ls) THEN favouriteArtists ELSE <<>>
       IN request' = [kind |-> "sort", sort_levels |-> ls, favourite_artists |-> artists]
    /\ isSorting' = TRUE
    /\ last' = "handleApplySort"
    /\ UNCHANGED <<selectedPlaylist, viewMode, selectedPreset, editedLevels,
                   favouriteArtists, isLoading>>
    /\ UNCHANGED <<component, levels, value, showAdvanced>>
    /\ UNCHANGED pureVars
    /\ UNCHANGED presetTemplates
    /\ UNCHANGED <<toasts, staleFetch>>
    /\ UNCHANGED sortVars

\* variant: the Shuffle button is not disabled while isSorting
handleShuffle_whileSorting ==
    /\ selectedPlaylist # "null"
    /\ viewMode = "select"
    /\ request' = [kind |-> "shuffle"]
    /\ isSorting' = TRUE
    /\ last' = "handleShuffle"
    /\ UNCHANGED <<selectedPlaylist, viewMode, selectedPreset, editedLevels,
                   favouriteArtists, isLoading>>
    /\ UNCHANGED <<component, levels, value, showAdvanced>>
    /\ UNCHANGED pureVars
    /\ UNCHANGED presetTemplates
    /\ UNCHANGED <<toasts, staleFetch>>
    /\ UNCHANGED sortVars

\* the Shuffle button -> onShuffle = DashboardPage.handleShuffle up to its await
handleShuffle ==
    /\ selectedPlaylist # "null"
    /\ viewMode = "select"
    /\ ~isSorting
    /\ request' = [kind |-> "shuffle"]
    /\ isSorting' = TRUE
    /\ last' = "handleShuffle"
    /\ UNCHANGED <<selectedPlaylist, viewMode, selectedPreset, editedLevels,
                   favouriteArtists, isLoading>>
    /\ UNCHANGED <<component, levels, value, showAdvanced>>
    /\ UNCHANGED pureVars
    /\ UNCHANGED presetTemplates
    /\ UNCHANGED <<toasts, staleFetch>>
    /\ UNCHANGED sortVars

\* what the awaited fetch and response.json() can come to: a body with
\* success true, a body with success false, or a thrown network / parse error
Outcomes == {"success", "failure", "thrown"}

\* variant: a success toast whatever came back
toastFor_alwaysSuccess(outcome) ==
    IF outcome = "success" THEN [type |-> "success", message |-> "playlistName successfully!"]
    ELSE IF outcome = "failure" THEN [type |-> "success", message |-> "data.message"]
    ELSE [type |-> "success", message |-> "err.message"]

\* the toast the handler adds: success(`"${playlistName}" ... successfully!`)
\* when data.success, showError(data.message || ...) otherwise, and
\* showError(err.message ...) in the catch block
toastFor(outcome) ==
    IF outcome = "success" THEN [type |-> "success", message |-> "playlistName successfully!"]
    ELSE IF outcome = "failure" THEN [type |-> "error", message |-> "data.message"]
    ELSE [type |-> "error", message |-> "err.message"]

\* handleSort / handleShuffle after the await: setSelectedPlaylist(null)
\* unmounts the modal on every path, one toast is added, finally
\* setIsSorting(false)
requestSettled ==
    /\ isSorting
    /\ selectedPlaylist' = "null"
    /\ \E outcome \in Outcomes : toasts' = Append(toasts, toastFor(outcome))
    /\ isSorting' = FALSE
    /\ request' = [kind |-> "none"]
    /\ freshModal
    /\ last' = "requestSettled"
    /\ UNCHANGED <<value, showAdvanced>>
    /\ UNCHANGED pureVars
    /\ UNCHANGED presetTemplates
    /\ UNCHANGED sortVars

\* useToast.dismissToast(id), from the toast's timer or its close button
dismissToast ==
    /\ \E i \in DOMAIN toasts :
          toasts' = SubSeq(toasts, 1, i - 1) \o SubSeq(toasts, i + 1, Len(toasts))
    /\ last' = "dismissToast"
    /\ UNCHANGED <<selectedPlaylist, isSorting, request, viewMode, selectedPreset,
                   editedLevels, favouriteArtists, isLoading, presetTemplates, staleFetch>>
    /\ UNCHANGED <<component, levels, value, showAdvanced>>
    /\ UNCHANGED pureVars
    /\ UNCHANGED sortVars

handleBack ==
    /\ selectedPlaylist # "null"
    /\ viewMode # "select"
    /\ ~isSorting
    /\ viewMode' = "select"
    /\ selectedPreset' = "null"
    /\ editedLevels' = <<>>
    /\ favouriteArtists' = <<>>
    /\ component' = "SortModal"
    /\ last' = "handleBack"
    /\ UNCHANGED <<selectedPlaylist, isSorting, request, isLoading>>
    /\ UNCHANGED <<levels, value, showAdvanced>>
    /\ UNCHANGED pureVars
    /\ UNCHANGED presetTemplates
    /\ UNCHANGED toasts
    /\ staleFetch' = isLoading
    /\ UNCHANGED sortVars

\* Cancel, the header close button, Escape and the backdrop, all off while isSorting
handleClose ==
    /\ selectedPlaylist # "null"
    /\ ~isSorting
    /\ selectedPlaylist' = "null"
    /\ freshModal
    /\ last' = "handleClose"
    /\ UNCHANGED <<isSorting, request, value, showAdvanced>>
    /\ UNCHANGED pureVars
    /\ UNCHANGED presetTemplates
    /\ UNCHANGED toasts
    /\ UNCHANGED sortVars

InitModal ==
    /\ component = "SortModal"
    /\ levels = <<>>
    /\ value = <<>>
    /\ showAdvanced = FALSE
    /\ last = "init"
    /\ PureIdle
    /\ ModalIdle
    /\ SortIdle

\* no sort or shuffle request is in flight
noRequestInFlight == ~isSorting

\* the toasts of the previous request have been dismissed
toastsDismissed == toasts = <<>>

NextModal ==
    \/ (toastsDismissed /\ selectPlaylist)
    \/ handlePresetSelect
    \/ handleCustomClick
    \/ (noRequestInFlight /\ PresetEditor_handleDirectionChange)
    \/ (noRequestInFlight /\ handleAddLevel)
    \/ (noRequestInFlight /\ handleRemoveLevel)
    \/ (noRequestInFlight /\ handleAttributeChange)
    \/ (noRequestInFlight /\ handleDirectionChange)
    \/ setFavouriteArtists
    \/ handleFetchLastFm
    \/ lastFmSettled
    \/ handleApplySort
    \/ handleShuffle
    \/ requestSettled
    \/ dismissToast
    \/ handleBack
    \/ handleClose

SpecModal == InitModal /\ [][NextModal]_vars

(***************************************************************************)
(* The lifecycle of a request.  SpecLifecycle follows the modal together   *)
(* with the toasts of earlier requests, which stay on screen while the     *)
(* next playlist is opened; a request is started only while fewer than     *)
(* MaxToasts toasts are shown.  The promise a handler awaits settles       *)
(* (fetch resolves or rejects) and the continuation of the handler then    *)
(* runs: weak fairness of requestSettled.                                  *)
(***************************************************************************)
toastRoom == Len(toasts) < MaxToasts

NextLifecycle ==
    \/ selectPlaylist
    \/ handlePresetSelect
    \/ handleCustomClick
    \/ PresetEditor_handleDirectionChange
    \/ handleAddLevel
    \/ setFavouriteArtists
    \/ (toastRoom /\ handleApplySort)
    \/ (toastRoom /\ handleShuffle)
    \/ requestSettled
    \/ dismissToast
    \/ handleBack
    \/ handleClose

SpecLifecycle ==
    /\ InitModal
    /\ [][NextLifecycle]_vars
    /\ WF_vars(requestSettled)

(***************************************************************************)
(* The prototype's track comparator: PlaylistDetail.sortedTracks, custom   *)
(* branch, on bounded pairs of tracks.  A Date is its getTime() number;    *)
(* String.prototype.localeCompare is the sign of the distance in a fixed   *)
(* collation of the strings the model uses.                                *)
(***************************************************************************)
\* the strings of the model in collation order
Collation ==
    << "After Hours", "Beyonce", "Blinding Lights", "Break My Soul", "Dua Lipa",
       "Future Nostalgia", "Karma", "Levitating", "Metallica", "Midnight Drive",
       "Midnights", "Physical", "Queen", "Renaissance", "Save Your Tears",
       "The Weeknd", "Unknown" >>

collationIndex(s) == CHOOSE i \in DOMAIN Collation : Collation[i] = s

sign(n) == IF n < 0 THEN 0 - 1 ELSE IF n > 0 THEN 1 ELSE 0

localeCompare(s, t) == sign(collationIndex(s) - collationIndex(t))

SortField == {"artist", "album", "release-date", "title", "play-count"}

\* Track values of the mock data's shape
Track ==
    [artist : {"Dua Lipa", "The Weeknd"},
     album : {"After Hours", "Midnights"},
     releaseDate : {1, 3},
     title : {"Karma", "Levitating"},
     playCount : {2, 5}]

\* CustomSortConfig values CustomSortModal can apply
CustomSortConfig ==
    { c \in [primary : SortField, primaryOrder : SortDirection,
             secondary : SortField \cup {"undefined"},
             secondaryOrder : SortDirection \cup {"undefined"}] :
        /\ c.secondary # c.primary
        /\ c.secondary # "undefined" => c.secondaryOrder # "undefined" }

getValue(track, field) ==
    CASE field = "artist" -> track.artist
      [] field = "album" -> track.album
      [] field = "release-date" -> track.releaseDate
      [] field = "title" -> track.title
      [] field = "play-count" -> track.playCount

\* typeof getValue(track, field) === 'string'
isStringField(field) == field \in {"artist", "album", "title"}

\* localeCompare for two strings, the difference for two numbers
compareValues(a, b, field) ==
    IF isStringField(field)
        THEN localeCompare(getValue(a, field), getValue(b, field))
        ELSE getValue(a, field) - getValue(b, field)

\* variant: the secondary order is not applied
customSortCompare_secondaryOrderIgnored(a, b, cfg) ==
    LET primary == compareValues(a, b, cfg.primary)
        primaryCompare == IF cfg.primaryOrder = "desc" THEN 0 - primary ELSE primary
    IN  IF primaryCompare # 0 \/ cfg.secondary = "undefined"
            THEN primaryCompare
            ELSE compareValues(a, b, cfg.secondary)

\* the comparator handed to sorted.sort() when sortPreset === 'custom'
customSortCompare(a, b, cfg) ==
    LET primary == compareValues(a, b, cfg.primary)
        primaryCompare == IF cfg.primaryOrder = "desc" THEN 0 - primary ELSE primary
    IN  IF primaryCompare # 0 \/ cfg.secondary = "undefined"
            THEN primaryCompare
            ELSE LET secondary == compareValues(a, b, cfg.secondary)
                 IN  IF cfg.secondaryOrder = "desc" THEN 0 - secondary ELSE secondary

InitCompare ==
    /\ BuildersIdle
    /\ ModalIdle
    /\ x = <<>>
    /\ pc = "input"
    /\ once = <<>>
    /\ twice = <<>>
    /\ fn = "none"
    /\ idx = 0
    /\ offered = <<>>
    /\ trackA \in Track
    /\ trackB \in Track
    /\ customSort \in CustomSortConfig
    /\ result = 0
    /\ tracks = <<>>
    /\ ranking = <<>>
    /\ sorted = <<>>
    /\ sortedFlipped = <<>>
    /\ sortPreset = "discography"
    /\ text = <<>>
    /\ updates = <<>>

\* one call of the comparator by Array.prototype.sort
Compare ==
    /\ pc = "input"
    /\ result' = customSortCompare(trackA, trackB, customSort)
    /\ pc' = "compared"
    /\ UNCHANGED <<x, once, twice, fn, idx, offered>>
    /\ UNCHANGED <<trackA, trackB, customSort, tracks, ranking, sorted>>
    /\ UNCHANGED <<sortedFlipped, sortPreset, text, updates>>
    /\ UNCHANGED builderVars
    /\ UNCHANGED modalVars

NextCompare == Compare

SpecCompare == InitCompare /\ [][NextCompare]_vars

(***************************************************************************)
(* PlaylistDetail.sortedTracks on bounded track collections.  The sort is  *)
(* Array.prototype.sort on a copy of `tracks`; the language makes it       *)
(* stable (ECMAScript 2019), modelled as a stable insertion by the sign of *)
(* the comparator.  A release date is its yyyymmdd number, which orders    *)
(* as getTime() does.                                                      *)
(***************************************************************************)
SortPreset == {"discography", "newest", "favorite-artists", "custom"}

mockTrack(id, title, artist, album, releaseDate, duration, playCount) ==
    [id |-> id, title |-> title, artist |-> artist, album |-> album,
     releaseDate |-> releaseDate, duration |-> duration, playCount |-> playCount]

\* generateTracks(): the first six tracks of the mock data
generateTracks ==
    << mockTrack("1", "Midnight Drive", "The Weeknd", "After Hours", 20200320, 234, 145),
       mockTrack("2", "Blinding Lights", "The Weeknd", "After Hours", 20200320, 200, 523),
       mockTrack("3", "Save Your Tears", "The Weeknd", "After Hours", 20200320, 215, 312),
       mockTrack("4", "Levitating", "Dua Lipa", "Future Nostalgia", 20200327, 203, 487),
       mockTrack("5", "Physical", "Dua Lipa", "Future Nostalgia", 20200327, 193, 234),
       mockTrack("6", "Break My Soul", "Beyonce", "Renaissance", 20220729, 279, 156) >>

\* the collections of up to MaxTracks different mock tracks, in any order
MockCollections ==
    UNION { { ts \in [1 .. n -> Range(generateTracks)] :
                \A i \in 1 .. n : \A j \in 1 .. n : i # j => ts[i] # ts[j] } :
            n \in 0 .. MaxTracks }

\* useState initial value of customSort
initialCustomSort ==
    [primary |-> "artist", primaryOrder |-> "asc",
     secondary |-> "undefined", secondaryOrder |-> "undefined"]

\* the comparator of the branch sortedTracks takes for a preset
presetCompare(preset, cfg, a, b) ==
    CASE preset = "discography" ->
            LET artistCompare == localeCompare(a.artist, b.artist)
                albumCompare == localeCompare(a.album, b.album)
            IN  IF artistCompare # 0 THEN artistCompare
                ELSE IF albumCompare # 0 THEN albumCompare
                ELSE a.releaseDate - b.releaseDate
      [] preset = "newest" -> b.releaseDate - a.releaseDate
      [] preset = "favorite-artists" ->
            LET playCountCompare == b.playCount - a.playCount
            IN  IF playCountCompare # 0 THEN playCountCompare
                ELSE localeCompare(a.artist, b.artist)
      [] preset = "custom" -> customSortCompare(a, b, cfg)

RECURSIVE arrayInsert_beforeEqual(_, _, _, _)
\* variant: an element goes before the elements it compares equal to
arrayInsert_beforeEqual(preset, cfg, t, s) ==
    IF s = << >> THEN << t >>
    ELSE IF presetCompare(preset, cfg, t, Head(s)) <= 0 THEN << t >> \o s
    ELSE << Head(s) >> \o arrayInsert_beforeEqual(preset, cfg, t, Tail(s))

RECURSIVE arrayInsert(_, _, _, _)
\* stable insertion: t goes before the first element it is less than
arrayInsert(preset, cfg, t, s) ==
    IF s = << >> THEN << t >>
    ELSE IF presetCompare(preset, cfg, t, Head(s)) < 0 THEN << t >> \o s
    ELSE << Head(s) >> \o arrayInsert(preset, cfg, t, Tail(s))

RECURSIVE arraySort(_, _, _)
\* Array.prototype.sort with the preset's comparator
arraySort(preset, cfg, ts) ==
    IF ts = << >> THEN << >>
    ELSE arrayInsert(preset, cfg, ts[Len(ts)],
                     arraySort(preset, cfg, SubSeq(ts, 1, Len(ts) - 1)))

InitSorted ==
    /\ BuildersIdle
    /\ ModalIdle
    /\ PureIdle
    /\ trackA = <<>>
    /\ trackB = <<>>
    /\ sortPreset \in SortPreset
    /\ customSort \in (IF sortPreset = "custom" THEN CustomSortConfig
                                                ELSE {initialCustomSort})
    /\ result = 0
    /\ tracks \in MockCollections
    /\ ranking = <<>>
    /\ sorted = <<>>
    /\ sortedFlipped = <<>>
    /\ text = <<>>
    /\ updates = <<>>

\* variant: sorts the memoized `tracks` array itself
sortedTracks_inPlace ==
    /\ pc = "idle"
    /\ sorted' = arraySort(sortPreset, customSort, tracks)
    /\ tracks' = sorted'
    /\ pc' = "sorted"
    /\ UNCHANGED <<x, once, twice, fn, idx, offered>>
    /\ UNCHANGED <<trackA, trackB, customSort, result, ranking>>
    /\ UNCHANGED <<sortedFlipped, sortPreset, text, updates>>
    /\ UNCHANGED builderVars
    /\ UNCHANGED modalVars

\* sortedTracks: const sorted = [...tracks]; return sorted.sort(...)
sortedTracks ==
    /\ pc = "idle"
    /\ sorted' = arraySort(sortPreset, customSort, tracks)
    /\ pc' = "sorted"
    /\ UNCHANGED <<x, once, twice, fn, idx, offered>>
    /\ UNCHANGED <<trackA, trackB, customSort, result, tracks, ranking>>
    /\ UNCHANGED <<sortedFlipped, sortPreset, text, updates>>
    /\ UNCHANGED builderVars
    /\ UNCHANGED modalVars

NextSorted == sortedTracks

SpecSorted == InitSorted /\ [][NextSorted]_vars

(***************************************************************************)
(* The comparator / ranking engine that serves the sort request.  Its code *)
(* is not among the sources (the dashboard only calls it), so these        *)
(* definitions follow the specification text, section 4.2.  A nullable     *)
(* value is a sequence: << >> when missing, << n >> when present.          *)
(***************************************************************************)
Artists == {"Queen", "Metallica", "Unknown"}

\* the track records handed to the engine: tracks that vary in track number
\* with one release date, and tracks that vary in release date with one
\* track number
EngineTrack ==
    { t \in [title : {"Karma"},
             artist_name : Artists,
             album_name : {"After Hours"},
             album_release_date : {<< >>, << 1 >>, << 2 >>},
             track_number : {<< >>, << 1 >>, << 2 >>},
             duration : {200}] :
        t.album_release_date = << 1 >> \/ t.track_number = << 1 >> }

isRanked(rk, artist) == \E i \in DOMAIN rk : rk[i] = artist

\* rank = position in the ranking; not found = greater than every position
rankOf(rk, artist) ==
    IF isRanked(rk, artist)
        THEN (CHOOSE i \in DOMAIN rk :
                 rk[i] = artist /\ \A j \in 1 .. i - 1 : rk[j] # artist) - 1
        ELSE Len(rk)

directed(direction, c) == IF direction = "desc" THEN 0 - c ELSE c

\* variant: a missing value is a largest key, negated with the rest
compareNullable_negated(direction, va, vb) ==
    IF va = << >> /\ vb = << >> THEN 0
    ELSE IF va = << >> THEN directed(direction, 1)
    ELSE IF vb = << >> THEN directed(direction, 0 - 1)
    ELSE directed(direction, sign(va[1] - vb[1]))

\* variant: present values are compared ascending whatever the direction
compareNullable_ignoresDirection(direction, va, vb) ==
    IF va = << >> /\ vb = << >> THEN 0
    ELSE IF va = << >> THEN 1
    ELSE IF vb = << >> THEN 0 - 1
    ELSE sign(va[1] - vb[1])

\* track_number, album_release_date: missing after present in both directions
compareNullable(direction, va, vb) ==
    IF va = << >> /\ vb = << >> THEN 0
    ELSE IF va = << >> THEN 1
    ELSE IF vb = << >> THEN 0 - 1
    ELSE directed(direction, sign(va[1] - vb[1]))

\* variant: an unranked artist has the largest rank, negated with the rest
compareFavourite_negated(direction, rk, artistA, artistB) ==
    directed(direction, sign(rankOf(rk, artistA) - rankOf(rk, artistB)))

\* variant: the rank is an indexOf, which is -1 for an artist not found
compareFavourite_indexOf(direction, rk, artistA, artistB) ==
    LET indexOf(artist) == IF isRanked(rk, artist) THEN rankOf(rk, artist) ELSE 0 - 1
    IN  directed(direction, sign(indexOf(artistA) - indexOf(artistB)))

\* favourite_artists: by rank, reversed for desc; unranked after every ranked
compareFavourite(direction, rk, artistA, artistB) ==
    IF ~isRanked(rk, artistA) /\ ~isRanked(rk, artistB) THEN 0
    ELSE IF ~isRanked(rk, artistA) THEN 1
    ELSE IF ~isRanked(rk, artistB) THEN 0 - 1
    ELSE directed(direction, sign(rankOf(rk, artistA) - rankOf(rk, artistB)))

\* the comparison of one level
compareLevel(level, rk, a, b) ==
    CASE level.attribute \in {"title", "artist_name", "album_name"} ->
            directed(level.direction,
                     localeCompare(a[level.attribute], b[level.attribute]))
      [] level.attribute = "duration" ->
            directed(level.direction, sign(a.duration - b.duration))
      [] level.attribute \in {"track_number", "album_release_date"} ->
            compareNullable(level.direction, a[level.attribute], b[level.attribute])
      [] level.attribute = "favourite_artists" ->
            compareFavourite(level.direction, rk, a.artist_name, b.artist_name)

RECURSIVE buildComparator(_, _, _, _)
\* buildComparator(spec, ranking)(a, b): the first level that does not tie
buildComparator(spec, rk, a, b) ==
    IF spec = << >> THEN 0
    ELSE LET c == compareLevel(Head(spec), rk, a, b)
         IN  IF c # 0 THEN c ELSE buildComparator(Tail(spec), rk, a, b)

RECURSIVE insertTrack(_, _, _, _)
\* stable insertion: t goes before the first track it is strictly less than
insertTrack(spec, rk, t, s) ==
    IF s = << >> THEN << t >>
    ELSE IF buildComparator(spec, rk, t, Head(s)) < 0 THEN << t >> \o s
    ELSE << Head(s) >> \o insertTrack(spec, rk, t, Tail(s))

RECURSIVE sortTracks(_, _, _)
\* a stable sort of ts by the comparator
sortTracks(spec, rk, ts) ==
    IF ts = << >> THEN << >>
    ELSE insertTrack(spec, rk, ts[Len(ts)],
                     sortTracks(spec, rk, SubSeq(ts, 1, Len(ts) - 1)))

\* the specifications handed to the engine
EngineSpecs ==
    { << SortLevel("album_name", "asc"), SortLevel("track_number", d) >> : d \in SortDirection }
    \cup { << SortLevel("album_release_date", d) >> : d \in SortDirection }
    \cup { << SortLevel("favourite_artists", d) >> : d \in SortDirection }
    \cup { << SortLevel("favourite_artists", d), SortLevel("album_release_date", "asc") >> :
              d \in SortDirection }

\* the rankings the modal sends with a specification
EngineRankings(spec) ==
    IF hasFavouritesLevel(spec)
        THEN {<< "Queen", "Metallica" >>, << "Metallica" >>}
        ELSE {<< >>}

TrackCollections == UNION { [1 .. n -> EngineTrack] : n \in 0 .. MaxTracks }

InitEngine ==
    /\ BuildersIdle
    /\ ModalIdle
    /\ x \in EngineSpecs
    /\ pc = "input"
    /\ once = <<>>
    /\ twice = <<>>
    /\ fn = "none"
    /\ idx = 0
    /\ offered = <<>>
    /\ trackA = <<>>
    /\ trackB = <<>>
    /\ customSort = <<>>
    /\ result = 0
    /\ tracks \in TrackCollections
    /\ ranking \in EngineRankings(x)
    /\ sorted = <<>>
    /\ sortedFlipped = <<>>
    /\ sortPreset = "discography"
    /\ text = <<>>
    /\ updates = <<>>

\* one sort call of the engine
SortTracks ==
    /\ pc = "input"
    /\ sorted' = sortTracks(x, ranking, tracks)
    /\ pc' = "sorted"
    /\ UNCHANGED <<x, once, twice, fn, idx, offered>>
    /\ UNCHANGED <<trackA, trackB, customSort, result, tracks, ranking>>
    /\ UNCHANGED <<sortedFlipped, sortPreset, text, updates>>
    /\ UNCHANGED builderVars
    /\ UNCHANGED modalVars

\* the direction of the first level changed, the rest of the specification kept
flipFirst(spec) ==
    [spec EXCEPT ![1] = SortLevel(spec[1].attribute,
                                  IF spec[1].direction = "asc" THEN "desc" ELSE "asc")]

\* a second sort call: same collection and ranking, first direction flipped
SortFlipped ==
    /\ pc = "sorted"
    /\ sortedFlipped' = sortTracks(flipFirst(x), ranking, tracks)
    /\ pc' = "flipped"
    /\ UNCHANGED <<x, once, twice, fn, idx, offered>>
    /\ UNCHANGED <<trackA, trackB, customSort, result, tracks, ranking, sorted>>
    /\ UNCHANGED <<sortPreset, text, updates>>
    /\ UNCHANGED builderVars
    /\ UNCHANGED modalVars

NextEngine ==
    \/ SortTracks
    \/ SortFlipped

SpecEngine == InitEngine /\ [][NextEngine]_vars

(***************************************************************************)
(* shuffle(tracks): the engine's Fisher-Yates shuffle, from the            *)
(* specification text (section 4.2).  The random source is a free choice   *)
(* of the index j at every step.  `sorted` holds the working copy and      *)
(* `idx` the 0-based loop index i.                                         *)
(***************************************************************************)
\* one track per artist
ShuffleTracks ==
    { t \in EngineTrack : t.album_release_date = << 1 >> /\ t.track_number = << 1 >> }

ShuffleCollections == UNION { [1 .. n -> ShuffleTracks] : n \in 0 .. MaxTracks }

\* s with the elements at the 0-based indices i and j exchanged
swap(s, i, j) == [s EXCEPT ![i + 1] = s[j + 1], ![j + 1] = s[i + 1]]

InitShuffle ==
    /\ BuildersIdle
    /\ ModalIdle
    /\ x = <<>>
    /\ pc = "input"
    /\ once = <<>>
    /\ twice = <<>>
    /\ fn = "none"
    /\ idx = 0
    /\ offered = <<>>
    /\ trackA = <<>>
    /\ trackB = <<>>
    /\ customSort = <<>>
    /\ result = 0
    /\ tracks \in ShuffleCollections
    /\ ranking = <<>>
    /\ sorted = <<>>
    /\ sortedFlipped = <<>>
    /\ sortPreset = "discography"
    /\ text = <<>>
    /\ updates = <<>>

\* copy the input and start the loop at the last index
ShuffleStart ==
    /\ pc = "input"
    /\ sorted' = tracks
    /\ idx' = Len(tracks) - 1
    /\ pc' = "shuffling"
    /\ UNCHANGED <<x, once, twice, fn, offered>>
    /\ UNCHANGED <<trackA, trackB, customSort, result, tracks, ranking>>
    /\ UNCHANGED <<sortedFlipped, sortPreset, text, updates>>
    /\ UNCHANGED builderVars
    /\ UNCHANGED modalVars

\* variant: the element at j is copied to i and not exchanged
ShuffleStep_overwrite ==
    /\ pc = "shuffling"
    /\ idx >= 1
    /\ \E j \in 0 .. idx : sorted' = [sorted EXCEPT ![idx + 1] = sorted[j + 1]]
    /\ idx' = idx - 1
    /\ UNCHANGED <<x, pc, once, twice, fn, offered>>
    /\ UNCHANGED <<trackA, trackB, customSort, result, tracks, ranking>>
    /\ UNCHANGED <<sortedFlipped, sortPreset, text, updates>>
    /\ UNCHANGED builderVars
    /\ UNCHANGED modalVars

\* one iteration: pick j in 0..i and exchange the elements at i and j
ShuffleStep ==
    /\ pc = "shuffling"
    /\ idx >= 1
    /\ \E j \in 0 .. idx : sorted' = swap(sorted, idx, j)
    /\ idx' = idx - 1
    /\ UNCHANGED <<x, pc, once, twice, fn, offered>>
    /\ UNCHANGED <<trackA, trackB, customSort, result, tracks, ranking>>
    /\ UNCHANGED <<sortedFlipped, sortPreset, text, updates>>
    /\ UNCHANGED builderVars
    /\ UNCHANGED modalVars

\* the loop is over: return the working copy
ShuffleReturn ==
    /\ pc = "shuffling"
    /\ idx < 1
    /\ pc' = "shuffled"
    /\ UNCHANGED <<x, once, twice, fn, idx, offered>>
    /\ UNCHANGED sortVars
    /\ UNCHANGED builderVars
    /\ UNCHANGED modalVars

NextShuffle ==
    \/ ShuffleStart
    \/ ShuffleStep
    \/ ShuffleReturn

SpecShuffle == InitShuffle /\ [][NextShuffle]_vars

(***************************************************************************)
(* FavouriteArtistsInput: manual entry (FavouriteArtistsInput.tsx 37-45).  *)
(* The textarea value is a sequence of characters; handleManualInputChange *)
(* splits it at newlines, trims every piece and drops the empty ones, and  *)
(* hands the result to onChange, which the modal binds to                  *)
(* setFavouriteArtists.                                                    *)
(***************************************************************************)
\* the characters String.prototype.trim removes, among those of Alphabet
Whitespace == {" ", "\n"}

Alphabet == {"a", "b", ",", " ", "\n"}

Texts == UNION { [1 .. n -> Alphabet] : n \in 0 .. MaxText }

\* String.prototype.split with a one-character separator
RECURSIVE split(_, _)
split(s, sep) ==
    LET hits == {i \in DOMAIN s : s[i] = sep}
    IN IF hits = {} THEN << s >>
       ELSE LET k == CHOOSE i \in hits : \A j \in hits : i <= j
            IN << SubSeq(s, 1, k - 1) >> \o split(SubSeq(s, k + 1, Len(s)), sep)

\* String.prototype.trim
trim(s) ==
    LET solid == {i \in DOMAIN s : s[i] \notin Whitespace}
    IN IF solid = {} THEN << >>
       ELSE SubSeq(s, CHOOSE i \in solid : \A j \in solid : i <= j,
                      CHOOSE i \in solid : \A j \in solid : i >= j)

\* variant: a comma separates names as a newline does
parseArtists_splitsOnComma(t) ==
    LET unified == [i \in DOMAIN t |-> IF t[i] = "," THEN "\n" ELSE t[i]]
        pieces == split(unified, "\n")
        trimmed == [i \in DOMAIN pieces |-> trim(pieces[i])]
    IN SelectSeq(trimmed, LAMBDA n : Len(n) > 0)

\* text.split("\n").map((s) => s.trim()).filter((s) => s.length > 0)
parseArtists(t) ==
    LET pieces == split(t, "\n")
        trimmed == [i \in DOMAIN pieces |-> trim(pieces[i])]
    IN SelectSeq(trimmed, LAMBDA n : Len(n) > 0)

InitParse ==
    /\ BuildersIdle
    /\ PureIdle
    /\ ModalIdle
    /\ trackA = <<>>
    /\ trackB = <<>>
    /\ customSort = <<>>
    /\ result = 0
    /\ tracks = <<>>
    /\ ranking = <<>>
    /\ sorted = <<>>
    /\ sortedFlipped = <<>>
    /\ sortPreset = "discography"
    /\ text \in Texts
    /\ updates = <<>>

handleManualInputChange ==
    /\ pc = "idle"
    /\ favouriteArtists' = parseArtists(text)
    /\ pc' = "parsed"
    /\ UNCHANGED builderVars
    /\ UNCHANGED <<x, once, twice, fn, idx, offered>>
    /\ UNCHANGED <<selectedPlaylist, isSorting, request, viewMode, selectedPreset,
                   editedLevels, isLoading, presetTemplates, toasts, staleFetch>>
    /\ UNCHANGED sortVars

NextParse == handleManualInputChange

SpecParse == InitParse /\ [][NextParse]_vars

(***************************************************************************)
(* Properties                                                              *)
(***************************************************************************)
\* album context as the composition rules define it
AlbumContextAttributes == {"album_name", "album_release_date", "artist_name"}

\* the specification the mounted builder is editing
current == IF component = "CustomSortBuilder" THEN levels ELSE value

RECURSIVE IsSubseq(_, _)
IsSubseq(a, b) ==
    IF a = <<>> THEN TRUE
    ELSE IF b = <<>> THEN FALSE
    ELSE IF Head(a) = Head(b) THEN IsSubseq(Tail(a), Tail(b))
    ELSE IsSubseq(a, Tail(b))

\* index i (1-based) of s has an album-context level before it
ContextBefore(s, i) == \E j \in 1 .. i - 1 : s[j].attribute \in AlbumContextAttributes

\* index i (1-based) of s has a track_number level before it
TrackNumberBefore(s, i) == \E j \in 1 .. i - 1 : s[j].attribute = "track_number"

NoDuplicates(s) == \A i, j \in DOMAIN s : i # j => s[i].attribute # s[j].attribute

TrackNumberRule(s) ==
    \A i \in DOMAIN s : s[i].attribute = "track_number" => ContextBefore(s, i)

AlbumAfterTrackRule(s) ==
    \A i \in DOMAIN s :
        s[i].attribute \in AlbumContextAttributes => ~TrackNumberBefore(s, i)

FavouritesRule(s) ==
    \A i \in DOMAIN s : s[i].attribute = "favourite_artists" => i = 1

\* valid under the composition rules
ValidSpecification(s) ==
    /\ NoDuplicates(s)
    /\ TrackNumberRule(s)
    /\ AlbumAfterTrackRule(s)
    /\ FavouritesRule(s)

\* C1: in both builders, after any sequence of edits, every track_number
\* level has album_name, album_release_date or artist_name at a smaller index.
C1_TrackNumberHasAlbumContext == TrackNumberRule(current)

\* C2: in both builders, after any sequence of edits, no album_name,
\* album_release_date or artist_name level comes after a track_number level.
C2_NoAlbumContextAfterTrackNumber == AlbumAfterTrackRule(current)

\* C3: in both builders, after any sequence of edits, a favourite_artists
\* level is only ever at index 0.
C3_FavouritesOnlyFirst == FavouritesRule(current)

\* C4: after any sequence of edits no two levels have the same attribute, and
\* a freshly appended level never takes an attribute used at any level.
AppendIsFresh ==
    /\ (levels' # levels /\ last' = "handleAddLevel") =>
            /\ Len(levels') = Len(levels) + 1
            /\ levels'[Len(levels')].attribute \notin attrsOf(levels)
    /\ (value' # value /\ last' = "addLevel") =>
            /\ Len(value') = Len(value) + 1
            /\ value'[Len(value')].attribute \notin attrsOf(value)

C4_NoDuplicateAttributes ==
    /\ [](NoDuplicates(levels) /\ NoDuplicates(value))
    /\ [][AppendIsFresh]_vars

\* the discography preset after a swap of its first two levels, with a fourth
\* level appended onto the three used attributes
C4_Witness ==
    /\ component = "SortLevelBuilder"
    /\ last = "addLevel"
    /\ Len(value) = MAX_SORT_LEVELS
    /\ value[1].attribute = "album_release_date"
    /\ value[2].attribute = "artist_name"
    /\ value[3].attribute = "track_number"
    /\ value[4].attribute = "title"

\* C5: repair is idempotent, repair(repair(x)) = repair(x), for every
\* sequence of levels x, valid or not, with or without duplicates.
C5_RepairIdempotent == pc = "twice" => twice = once

\* repair ran twice on an input with a duplicate attribute that it changed
C5_Witness ==
    /\ pc = "twice"
    /\ ~NoDuplicates(x)
    /\ once # x
    /\ once # <<>>

\* C6: repair returns every specification that is valid under the
\* composition rules unchanged; e.g. [artist_name, track_number].
C6_RepairKeepsValid ==
    (pc \in {"once", "twice"} /\ ValidSpecification(x)) => once = x

\* C7: the output of repair has no track_number level without album context
\* before it; every track_number level that has no album context among the
\* levels preceding it in the input is dropped; repair([track_number]) = [].
WithContextOnly(s) ==
    filterIdx(s, {i \in 0 .. Len(s) - 1 :
                     s[i + 1].attribute = "track_number" => ContextBefore(s, i + 1)}, 0)

C7_RepairDropsBareTrackNumber ==
    pc \in {"once", "twice"} =>
        /\ TrackNumberRule(once)
        /\ IsSubseq(once, WithContextOnly(x))
        /\ (Len(x) = 1 /\ x[1].attribute = "track_number") => once = <<>>

\* repair dropped a track_number level and kept another one
C7_Witness ==
    /\ pc = "once"
    /\ Len(x) = 3
    /\ x[1].attribute = "track_number"
    /\ x[3].attribute = "track_number"
    /\ Len(once) = 2

\* C8: when album_name is forced in after a track_number level, as in
\* [album_release_date, track_number, album_name], repair removes it.
C8_RepairRemovesAlbumNameAfterTrackNumber ==
    (/\ pc \in {"once", "twice"}
     /\ Len(x) = 3
     /\ x[1].attribute = "album_release_date"
     /\ x[2].attribute = "track_number"
     /\ x[3].attribute = "album_name")
        => "album_name" \notin attrsOf(once)

\* C9: repair never reorders levels and never changes the attribute or the
\* direction of a level it keeps: the output is a subsequence of the input,
\* and every legal level other than track_number stays, in the same order.
LegalNonTrackNumber(s) ==
    filterIdx(s, {i \in 0 .. Len(s) - 1 :
                     /\ s[i + 1].attribute # "track_number"
                     /\ s[i + 1].attribute = "favourite_artists" => i = 0
                     /\ s[i + 1].attribute \in AlbumContextAttributes
                            => ~TrackNumberBefore(s, i + 1)
                     /\ \A j \in 1 .. i : s[j].attribute # s[i + 1].attribute}, 0)

C9_RepairKeepsOrderAndLevels ==
    pc \in {"once", "twice"} =>
        /\ IsSubseq(once, x)
        /\ IsSubseq(LegalNonTrackNumber(x), once)

\* repair dropped a leading track_number and kept the desc level after it
C9_Witness ==
    /\ pc = "once"
    /\ Len(x) = 3
    /\ x[1].attribute = "track_number"
    /\ x[2] = SortLevel("title", "desc")
    /\ x[3] = SortLevel("album_name", "asc")
    /\ once = << SortLevel("title", "desc"), SortLevel("album_name", "asc") >>

\* C10: every attribute-offering function offers track_number at a level
\* exactly when the preceding levels contain album_name, album_release_date
\* or artist_name (track_number not being in use already, cap not reached).
C10_TrackNumberOfferedIffAlbumContext ==
    (/\ pc = "offered"
     /\ "track_number" \notin attrsOf(x)
     /\ fn = "getValidAttributesForNewLevel" => Len(x) < MAX_SORT_LEVELS)
        => ("track_number" \in Range(offered)
                <=> ContextBefore(x, idx + 1))

\* the attribute of the level being edited in place, "none" for a new level
currentAttribute ==
    IF fn \in {"availableForThis", "getSelectableAttributes"} /\ idx < Len(x)
    THEN x[idx + 1].attribute
    ELSE "none"

\* C11: when the preceding levels contain track_number, no attribute-offering
\* function offers album_name, album_release_date or artist_name as a choice
\* different from the level's current attribute.
C11_NoAlbumContextOfferedAfterTrackNumber ==
    (pc = "offered" /\ TrackNumberBefore(x, idx + 1)) =>
        \A a \in AlbumContextAttributes :
            a \in Range(offered) => a = currentAttribute

\* C12: at a level index other than 0 no attribute-offering function offers
\* favourite_artists; at index 0 it is offered unless it is already in use at
\* another level.
C12_FavouritesOfferedOnlyAtFirst ==
    pc = "offered" =>
        /\ idx # 0 => "favourite_artists" \notin Range(offered)
        /\ (idx = 0 /\ \A j \in 2 .. Len(x) : x[j].attribute # "favourite_artists")
              => "favourite_artists" \in Range(offered)

\* C13: every specification handed to the sort call has at least 1 and at
\* most 4 levels, in preset-edit mode and in custom mode.
C13_SortCallHasOneToFourLevels ==
    request.kind = "sort" =>
        (Len(request.sort_levels) >= 1 /\ Len(request.sort_levels) <= 4)

\* a sort was applied from the custom view with a single level left after edits
C13_Witness ==
    /\ request.kind = "sort"
    /\ viewMode = "custom"
    /\ Len(request.sort_levels) = 1
    /\ request.sort_levels[1] = SortLevel("album_name", "desc")

\* C14: a sort is never started with a favourite_artists level and an empty
\* ranking: Apply Sort is enabled only when the current levels have no
\* favourite_artists level or favouriteArtists is non-empty.
C14_NoFavouritesSortWithoutRanking ==
    /\ (ENABLED handleApplySort) =>
            (~hasFavouritesLevel(currentLevels) \/ favouriteArtists # <<>>)
    /\ (request.kind = "sort" /\ hasFavouritesLevel(request.sort_levels)) =>
            request.favourite_artists # <<>>

\* a custom sort with a favourite_artists level was started with a ranking
C14_Witness ==
    /\ request.kind = "sort"
    /\ viewMode = "custom"
    /\ Len(request.sort_levels) = 2
    /\ request.sort_levels[1].attribute = "favourite_artists"
    /\ request.favourite_artists = <<"Queen", "Metallica">>

\* the three preset specifications as the specification text lists them
StatedPresets ==
    [discography |-> << SortLevel("artist_name", "asc"),
                        SortLevel("album_release_date", "asc"),
                        SortLevel("track_number", "asc") >>,
     latest_releases |-> << SortLevel("album_release_date", "desc"),
                            SortLevel("track_number", "asc") >>,
     favourites_first |-> << SortLevel("favourite_artists", "asc"),
                             SortLevel("artist_name", "asc"),
                             SortLevel("album_release_date", "asc"),
                             SortLevel("track_number", "asc") >>]

\* C15: selecting a preset yields exactly the fixed specification stated for
\* it: discography = [artist_name asc, album_release_date asc, track_number
\* asc], latest_releases = [album_release_date desc, track_number asc],
\* favourites_first = [favourite_artists asc, artist_name asc,
\* album_release_date asc, track_number asc].
C15_PresetsAreTheStatedSpecifications ==
    (viewMode = "preset-edit" /\ last = "handlePresetSelect") =>
        editedLevels = StatedPresets[selectedPreset]

\* the attributes of the levels, in order
attributeSequence(s) == [i \in DOMAIN s |-> s[i].attribute]

\* C16: in preset-edit mode, after any sequence of direction changes, the
\* edited specification has the attribute sequence of the selected preset
\* (same length, same attribute at every index); the preset templates are
\* never modified, so a preset that has just been selected has its original
\* directions.
C16_PresetEditKeepsAttributeSequence ==
    /\ presetTemplates = SortModal_PRESETS
    /\ viewMode = "preset-edit" =>
          /\ selectedPreset \in DOMAIN SortModal_PRESETS
          /\ attributeSequence(editedLevels) =
                attributeSequence(SortModal_PRESETS[selectedPreset])
    /\ (viewMode = "preset-edit" /\ last = "handlePresetSelect") =>
          editedLevels = SortModal_PRESETS[selectedPreset]

\* both directions of Latest Releases have been flipped in the editor
C16_Witness ==
    /\ viewMode = "preset-edit"
    /\ selectedPreset = "latest_releases"
    /\ last = "PresetEditor.handleDirectionChange"
    /\ editedLevels = << SortLevel("album_release_date", "asc"),
                         SortLevel("track_number", "desc") >>

\* the levels a CustomSortConfig stands for, in specification order
levelsOfConfig(cfg) ==
    << [field |-> cfg.primary, direction |-> cfg.primaryOrder] >> \o
    (IF cfg.secondary = "undefined" THEN << >>
     ELSE << [field |-> cfg.secondary, direction |-> cfg.secondaryOrder] >>)

\* how the keys of a and b for a field compare: -1, 0 or 1
keyOrder(a, b, field) ==
    LET ka == getValue(a, field)
        kb == getValue(b, field)
    IN  IF ka = kb THEN 0
        ELSE IF isStringField(field)
                THEN (IF collationIndex(ka) < collationIndex(kb) THEN 0 - 1 ELSE 1)
                ELSE (IF ka < kb THEN 0 - 1 ELSE 1)

\* C17: the comparator compares two tracks level by level in specification
\* order: its result has the sign of the key comparison at the first level
\* whose keys differ, negated when that level's direction is desc (so later
\* levels count only when all earlier levels tie), and is 0 when every level
\* ties.
C17_ComparatorIsLexicographic ==
    pc = "compared" =>
        LET ls == levelsOfConfig(customSort)
            tie(i) == keyOrder(trackA, trackB, ls[i].field) = 0
        IN  /\ \A i \in DOMAIN ls :
                  ((\A j \in 1 .. i - 1 : tie(j)) /\ ~tie(i)) =>
                      sign(result) =
                          (IF ls[i].direction = "desc"
                              THEN 0 - keyOrder(trackA, trackB, ls[i].field)
                              ELSE keyOrder(trackA, trackB, ls[i].field))
            /\ (\A i \in DOMAIN ls : tie(i)) => result = 0

\* the primary level ties and a descending secondary level decided
C17_Witness ==
    /\ pc = "compared"
    /\ customSort.secondary = "release-date"
    /\ customSort.secondaryOrder = "desc"
    /\ keyOrder(trackA, trackB, customSort.primary) = 0
    /\ trackA.releaseDate < trackB.releaseDate
    /\ result > 0

\* the key of a track at a level: the rank for favourite_artists
levelKey(level, rk, t) ==
    IF level.attribute = "favourite_artists"
        THEN rankOf(rk, t.artist_name)
        ELSE t[level.attribute]

\* a and b have equal keys at every level of spec before level n
tiedBefore(spec, rk, n, a, b) ==
    \A j \in 1 .. n - 1 : levelKey(spec[j], rk, a) = levelKey(spec[j], rk, b)

NullableAttributes == {"track_number", "album_release_date"}

artistsOf(ts) == [i \in DOMAIN ts |-> ts[i].artist_name]

trackNumbersOf(ts) == [i \in DOMAIN ts |-> ts[i].track_number]

\* a track of one album with the given track number
albumTrack(n) ==
    [title |-> "Karma", artist_name |-> "Queen", album_name |-> "After Hours",
     album_release_date |-> << 1 >>, track_number |-> n, duration |-> 200]

\* C18: at a track_number or album_release_date level, a track with a missing
\* value comes after every track with a present value (among tracks tied on
\* the earlier levels), for asc and for desc; track numbers [3, 1, null, 2]
\* of one album under [album_name asc, track_number asc] come out 1, 2, 3, null.
C18_MissingValuesSortLast ==
    /\ pc = "sorted" =>
          \A n \in DOMAIN x : x[n].attribute \in NullableAttributes =>
              \A i \in DOMAIN sorted : \A j \in DOMAIN sorted :
                  (/\ i < j
                   /\ tiedBefore(x, ranking, n, sorted[i], sorted[j])
                   /\ sorted[i][x[n].attribute] = << >>)
                      => sorted[j][x[n].attribute] = << >>
    /\ trackNumbersOf(sortTracks(<< SortLevel("album_name", "asc"),
                                    SortLevel("track_number", "asc") >>, << >>,
                                 << albumTrack(<< 3 >>), albumTrack(<< 1 >>),
                                    albumTrack(<< >>), albumTrack(<< 2 >>) >>))
          = << << 1 >>, << 2 >>, << 3 >>, << >> >>

\* a descending track_number level moved a leading missing value to the end
C18_Witness ==
    /\ pc = "sorted"
    /\ x = << SortLevel("album_name", "asc"), SortLevel("track_number", "desc") >>
    /\ trackNumbersOf(tracks) = << << >>, << 1 >>, << 2 >> >>
    /\ trackNumbersOf(sorted) = << << 2 >>, << 1 >>, << >> >>

C20_FavouritesAscByRank ==
    (pc = "sorted" /\ x[1] = SortLevel("favourite_artists", "asc")) =>
        /\ \A i \in DOMAIN sorted : \A j \in DOMAIN sorted : i < j =>
              /\ (isRanked(ranking, sorted[i].artist_name)
                  /\ isRanked(ranking, sorted[j].artist_name))
                     => rankOf(ranking, sorted[i].artist_name)
                            <= rankOf(ranking, sorted[j].artist_name)
              /\ ~isRanked(ranking, sorted[i].artist_name)
                     => ~isRanked(ranking, sorted[j].artist_name)
        /\ (ranking = << "Queen", "Metallica" >>
            /\ artistsOf(tracks) = << "Metallica", "Unknown", "Queen" >>)
               => artistsOf(sorted) = << "Queen", "Metallica", "Unknown" >>

\* the example of the claim: rank 0, rank 1, then the unranked artist
C20_Witness ==
    /\ pc = "sorted"
    /\ x = << SortLevel("favourite_artists", "asc") >>
    /\ ranking = << "Queen", "Metallica" >>
    /\ artistsOf(tracks) = << "Metallica", "Unknown", "Queen" >>
    /\ artistsOf(sorted) = << "Queen", "Metallica", "Unknown" >>

Reverse(s) == [i \in DOMAIN s |-> s[Len(s) + 1 - i]]

\* no two tracks of ts have the same key at the level
tieFreeOn(level, rk, ts) ==
    \A i \in DOMAIN ts : \A j \in DOMAIN ts :
        i # j => levelKey(level, rk, ts[i]) # levelKey(level, rk, ts[j])

\* every track has a value to compare at the level: a present value for a
\* nullable attribute, a ranked artist for favourite_artists
allPresentOn(level, rk, ts) ==
    \A i \in DOMAIN ts :
        /\ level.attribute \in NullableAttributes => ts[i][level.attribute] # << >>
        /\ level.attribute = "favourite_artists" => isRanked(rk, ts[i].artist_name)

levelsOfPreset(preset, cfg) ==
    CASE preset = "discography" ->
            << [field |-> "artist", direction |-> "asc"],
               [field |-> "album", direction |-> "asc"],
               [field |-> "release-date", direction |-> "asc"] >>
      [] preset = "newest" -> << [field |-> "release-date", direction |-> "desc"] >>
      [] preset = "favorite-artists" ->
            << [field |-> "play-count", direction |-> "desc"],
               [field |-> "artist", direction |-> "asc"] >>
      [] preset = "custom" -> levelsOfConfig(cfg)

\* a and b tie on every level
tieOnEveryLevel(ls, a, b) == \A n \in DOMAIN ls : keyOrder(a, b, ls[n].field) = 0

positionIn(ts, t) == CHOOSE i \in DOMAIN ts : ts[i] = t

\* C22: the sort is stable: two tracks that tie on every level appear in the
\* result in the same relative order as in the input collection, for every
\* preset, every custom configuration and every direction.
C22_SortIsStable ==
    pc = "sorted" =>
        \A i \in DOMAIN sorted : \A j \in DOMAIN sorted :
            (i < j /\ tieOnEveryLevel(levelsOfPreset(sortPreset, customSort),
                                      sorted[i], sorted[j]))
                => positionIn(tracks, sorted[i]) < positionIn(tracks, sorted[j])

\* two tracks of one album kept their input order behind a track that moved
C22_Witness ==
    /\ pc = "sorted"
    /\ sortPreset = "custom"
    /\ customSort.primary = "album"
    /\ customSort.primaryOrder = "desc"
    /\ customSort.secondary = "undefined"
    /\ Len(tracks) = 3
    /\ <<tracks[1].id, tracks[2].id, tracks[3].id>> = <<"3", "4", "1">>
    /\ <<sorted[1].id, sorted[2].id, sorted[3].id>> = <<"4", "3", "1">>

IsPermutation(s, t) ==
    /\ Len(s) = Len(t)
    /\ \A e \in Range(s) \cup Range(t) :
          Cardinality({i \in DOMAIN s : s[i] = e}) = Cardinality({i \in DOMAIN t : t[i] = e})

\* C23: a sort call returns a sequence that is a permutation of the input
\* collection and leaves the input collection and the sort configuration
\* unchanged; an empty collection gives an empty result.
C23_SortReturnsPermutation ==
    [][pc' = "sorted" =>
          /\ tracks' = tracks
          /\ sortPreset' = sortPreset
          /\ customSort' = customSort
          /\ IsPermutation(sorted', tracks)
          /\ tracks = << >> => sorted' = << >>]_vars

\* a collection of three tracks came back in another order
C23_Witness ==
    /\ pc = "sorted"
    /\ Len(tracks) = 3
    /\ sorted # tracks
    /\ IsPermutation(sorted, tracks)

\* C24: shuffle returns a rearrangement of its input: at every step and at
\* the return the working copy has the same multiset of tracks as the input
\* (nothing duplicated, nothing lost), for every length including 0 and 1.
C24_ShuffleIsPermutation ==
    pc \in {"shuffling", "shuffled"} => IsPermutation(sorted, tracks)

\* three different tracks came back in another order
C24_Witness ==
    /\ pc = "shuffled"
    /\ Len(tracks) = 3
    /\ Cardinality(Range(tracks)) = 3
    /\ sorted # tracks
    /\ IsPermutation(sorted, tracks)

\* the 1-based positions other than the edited one that hold the chosen attribute
otherPositions ==
    {o \in DOMAIN x : o # idx + 1 /\ x[o].attribute = updates.attribute}

\* C25: when updateLevel changes a level's attribute to one used at another
\* level, the two levels exchange attributes before repair: the edited level
\* has the chosen attribute, the other level has the edited level's previous
\* attribute, both keep their directions, every other level is unchanged and
\* the set of attributes is unchanged.
C25_UpdateLevelSwapsAttributes ==
    (pc = "updated" /\ "attribute" \in DOMAIN updates /\ otherPositions # {}) =>
        \A o \in otherPositions :
            /\ Len(once) = Len(x)
            /\ once[idx + 1] = SortLevel(updates.attribute, x[idx + 1].direction)
            /\ once[o] = SortLevel(x[idx + 1].attribute, x[o].direction)
            /\ \A i \in DOMAIN x : (i # idx + 1 /\ i # o) => once[i] = x[i]
            /\ attrsOf(once) = attrsOf(x)

\* the second level took the first level's attribute; the directions stayed
C25_Witness ==
    /\ pc = "updated"
    /\ x = << SortLevel("artist_name", "asc"), SortLevel("album_name", "desc") >>
    /\ idx = 1
    /\ updates = [attribute |-> "artist_name"]
    /\ once = << SortLevel("album_name", "asc"), SortLevel("artist_name", "desc") >>

\* C26: a level can be added only while the cap is not reached and some
\* attribute is selectable for the new trailing index: otherwise the add button
\* is not rendered and the add handler changes nothing; when it does add, it
\* appends exactly one level, the first selectable attribute with direction
\* asc, and leaves every existing level as it was.
C26_AddStep ==
    /\ last' = "handleAddLevel" =>
            /\ canAddMore
            /\ availableForNext # <<>>
            /\ levels' = Append(levels, SortLevel(availableForNext[1], "asc"))
    /\ last' = "addLevel" =>
            /\ Len(value) < MAX_SORT_LEVELS
            /\ getValidAttributesForNewLevel(value) # <<>>
            /\ value' = Append(value,
                    SortLevel(getValidAttributesForNewLevel(value)[1], "asc"))

C26_AddNotOffered ==
    /\ (component = "CustomSortBuilder" /\ ~(canAddMore /\ availableForNext # <<>>)) =>
            ~ENABLED handleAddLevel
    /\ (component = "SortLevelBuilder"
            /\ (Len(value) >= MAX_SORT_LEVELS \/ getValidAttributesForNewLevel(value) = <<>>)) =>
            /\ ~canAddMoreLevels
            /\ ~ENABLED addLevel

C26_AddLevelAppendsFirstSelectable ==
    /\ []C26_AddNotOffered
    /\ [][C26_AddStep]_vars

\* a third level was just appended to two in the custom builder, which is now
\* at its cap with attributes still selectable
C26_Witness ==
    /\ component = "CustomSortBuilder"
    /\ last = "handleAddLevel"
    /\ Len(levels) = MAX_LEVELS
    /\ levels[3].direction = "asc"
    /\ availableForNext # <<>>
    /\ ~canAddMore

\* the 1-based positions of the newlines of the text, with 0 before the first
\* line and Len(text) + 1 after the last
lineBreaks == {0, Len(text) + 1} \cup {i \in DOMAIN text : text[i] = "\n"}

\* the lines of the text as pairs <<b, e>> of consecutive breaks
lineSpans ==
    {be \in lineBreaks \X lineBreaks :
        /\ be[1] < be[2]
        /\ \A i \in lineBreaks : ~(be[1] < i /\ i < be[2])}

\* the lines holding a character that is not whitespace
solidSpans ==
    {be \in lineSpans : \E i \in be[1] + 1 .. be[2] - 1 : text[i] \notin Whitespace}

\* the text between the first and the last non-whitespace character of a line
nameOf(be) ==
    LET solid == {i \in be[1] + 1 .. be[2] - 1 : text[i] \notin Whitespace}
        first == CHOOSE i \in solid : \A j \in solid : i <= j
        final == CHOOSE i \in solid : \A j \in solid : i >= j
    IN [k \in 1 .. final - first + 1 |-> text[first + k - 1]]

\* C27: the ranking built from manual entry is the non-empty lines of the
\* text in their order, each without its surrounding whitespace: rank k is the
\* k-th line that holds a name, a comma never ends a name, and no name is
\* empty.
C27_ManualRankingIsTrimmedLines ==
    pc = "parsed" =>
        /\ Len(favouriteArtists) = Cardinality(solidSpans)
        /\ \A be \in solidSpans :
                favouriteArtists[Cardinality({o \in solidSpans : o[1] <= be[1]})]
                    = nameOf(be)
        /\ \A k \in DOMAIN favouriteArtists : favouriteArtists[k] # << >>

\* "a," on the first line and " b" on the second: two names, the first
\* keeping its comma, the second without its leading blank
C27_Witness ==
    /\ pc = "parsed"
    /\ text = << "a", ",", "\n", " ", "b" >>
    /\ favouriteArtists = << << "a", "," >>, << "b" >> >>

\* the step that ends a request
settleStep == isSorting /\ ~isSorting'

\* C28: every sort or shuffle request that was started finishes: isSorting is
\* false again and the modal is closed, and the step that finishes it adds
\* exactly one toast, a success toast when the response reported success and
\* an error toast when it reported failure or the fetch threw; no other step
\* adds a toast.
C28_SettleAddsOneToast ==
    /\ settleStep =>
            /\ selectedPlaylist' = "null"
            /\ Len(toasts') = Len(toasts) + 1
            /\ SubSeq(toasts', 1, Len(toasts)) = toasts
            /\ LET added == toasts'[Len(toasts')]
               IN \/ added.type = "success" /\ added.message = "playlistName successfully!"
                  \/ added.type = "error" /\ added.message \in {"data.message", "err.message"}
    /\ ~settleStep => Len(toasts') <= Len(toasts)

C28_RequestFinishes ==
    /\ isSorting ~> (~isSorting /\ selectedPlaylist = "null")
    /\ [][C28_SettleAddsOneToast]_vars

\* a request whose fetch threw has been settled with an error toast while the
\* success toast of an earlier request is still shown
C28_Witness ==
    /\ last = "requestSettled"
    /\ ~isSorting
    /\ selectedPlaylist = "null"
    /\ Len(toasts) = 2
    /\ toasts[1].type = "success"
    /\ toasts[2] = [type |-> "error", message |-> "err.message"]

\* C29: at most one sort or shuffle request is in flight: while isSorting is
\* true Apply Sort, Shuffle, Back and every way of closing the modal (Cancel,
\* the header button, Escape, the backdrop) are disabled, so until the request
\* completes no request starts and the modal stays open with the request
\* that was sent.
C29_ControlsOffWhileSorting ==
    /\ isSorting <=> request.kind # "none"
    /\ isSorting =>
            /\ selectedPlaylist # "null"
            /\ ~ENABLED handleApplySort
            /\ ~ENABLED handleShuffle
            /\ ~ENABLED handleBack
            /\ ~ENABLED handleClose

C29_InFlightStep ==
    /\ last' \in {"handleApplySort", "handleShuffle"} => ~isSorting
    /\ (isSorting /\ last' # "requestSettled") =>
            /\ isSorting'
            /\ request' = request
            /\ selectedPlaylist' = selectedPlaylist
    /\ last' \in {"handleBack", "handleClose"} => ~isSorting

C29_OneRequestInFlight ==
    /\ []C29_ControlsOffWhileSorting
    /\ [][C29_InFlightStep]_vars

\* a sort of a custom specification is in flight with the custom view, its
\* Back, Cancel and Apply buttons, still on screen
C29_Witness ==
    /\ isSorting
    /\ request.kind = "sort"
    /\ viewMode = "custom"
    /\ canApply
    /\ selectedPlaylist # "null"

\* the handlers that open or leave a configuration
configurationHandlers ==
    {"handlePresetSelect", "handleCustomClick", "handleBack", "handleClose"}

C30_SentRankingNeedsLevel ==
    (request.kind = "sort" /\ request.favourite_artists # <<>>) =>
        hasFavouritesLevel(request.sort_levels)

\* the four handlers empty the stored ranking
C30_ResetStep == last' \in configurationHandlers => favouriteArtists' = <<>>

\* a ranking that appears in an open configuration does not come from a fetch
\* started in an earlier one
C30_FreshRankingStep ==
    (favouriteArtists' # favouriteArtists /\ favouriteArtists' # <<>> /\ viewMode # "select")
        => ~staleFetch

C30_RankingStep == C30_ResetStep /\ C30_FreshRankingStep

\* C30: the favourite-artist list sent with a sort is non-empty only when the
\* applied specification has a favourite_artists level; selecting a preset,
\* entering custom mode, Back and Close each empty the stored ranking, and a
\* ranking is never carried from one configuration to another: a non-empty
\* ranking is stored only from an input of the configuration that is open.
C30_RankingNeverCarriedOver ==
    /\ []C30_SentRankingNeedsLevel
    /\ [][C30_RankingStep]_vars

\* the same without the step of a fetch in flight
C30_SentAndReset ==
    /\ []C30_SentRankingNeedsLevel
    /\ [][C30_ResetStep]_vars

====
